---- MODULE Spec2Model ----
(***************************************************************************)
(* State-machine model of the selection / interaction controller of        *)
(* src/src/Select.vue (the <script setup> block, lines 1-420, and the      *)
(* event bindings of its template, lines 422-578).                         *)
(*                                                                         *)
(* One action is one user or host event, processed to completion: the      *)
(* handler(s) the event reaches, the default action of the browser when    *)
(* the handlers did not prevent it, the delivery of the v-model update to  *)
(* the host, and the flush of the watcher on `search`.                     *)
(*                                                                         *)
(* Texts (labels, search text) are sequences of one-character strings.     *)
(* Option values are integers; 0 stands for the falsy values of            *)
(* JavaScript (0, ""), Undefined for `undefined`.                          *)
(***************************************************************************)
EXTENDS Integers, Sequences, FiniteSets, TLC

(***************************************************************************)
(* Bounds of the model.                                                    *)
(***************************************************************************)
\* longest search text the user types
MaxSearchLen == 1
\* longest selection sequence the host supplies as the initial model value
MaxInitSel == 2

(***************************************************************************)
(* Values and sentinels.                                                   *)
(***************************************************************************)
\* `undefined as OptionValue`
Undefined == -1
\* focusedOption = ref(-1); also the "not found" result of findIndex
NoFocus == -1

\* Payloads of optionDeselected that are not options: `null` (multi clear)
\* and `undefined` (selectedOptions.value[0] of an empty array).
NullOption == [value |-> -2, label |-> <<>>, groupName |-> "", disabled |-> FALSE]
UndefinedOption == [value |-> -3, label |-> <<>>, groupName |-> "", disabled |-> FALSE]

\* Option: { value, label, groupName?, disabled? }; a missing groupName is
\* "" and a missing disabled flag is FALSE (both are tested for truthiness
\* only).
Opt(v, l, g, d) == [value |-> v, label |-> l, groupName |-> g, disabled |-> d]

(***************************************************************************)
(* The option lists the host supplies.  They contain a disabled option, an *)
(* option with a falsy value, labels that differ in case only, group names *)
(* that are integer-like property keys ("1", "2"), options without a       *)
(* group, two options with one value (as the playground's user options     *)
(* have), a list without a disabled option and a displayedOptions subset.  *)
(***************************************************************************)
OptA == Opt(1, <<"a", "B">>, "2", FALSE)
OptB == Opt(2, <<"B">>, "", TRUE)
OptC == Opt(0, <<"A", " ">>, "1", FALSE)
OptD == Opt(2, <<"b">>, "x", FALSE)

Store(opts, has, disp) == [options |-> opts, hasDisplayed |-> has, displayed |-> disp]

\* three options, none disabled, no displayedOptions
PlainStore == Store(<<OptA, OptD, OptC>>, FALSE, <<>>)

Stores ==
    { Store(<<OptA, OptB, OptC>>, FALSE, <<>>),
      Store(<<OptB, OptD, OptA>>, FALSE, <<>>),
      PlainStore,
      Store(<<OptA, OptB, OptC>>, TRUE, <<OptC, OptA>>) }

\* characters the user types into the search input
SearchAlphabet == {"B", " "}

(***************************************************************************)
(* Helpers on sequences (Array.prototype methods).                         *)
(***************************************************************************)
\* Array.prototype.includes
Includes(s, x) == \E i \in 1..Len(s) : s[i] = x

\* Array.prototype.filter
Filter(s, Test(_)) == SelectSeq(s, Test)

\* Array.prototype.findIndex over a 0-based array: the least index whose
\* element passes, or -1
FindIndex(s, Test(_, _)) ==
    IF \E i \in 1..Len(s) : Test(s[i], i - 1)
    THEN (CHOOSE i \in 1..Len(s) :
              /\ Test(s[i], i - 1)
              /\ \A j \in 1..(i - 1) : ~Test(s[j], j - 1)) - 1
    ELSE -1

\* Array.prototype.reduce((acc, option, i) => Test(option, i) ? i : acc, -1):
\* the accumulator is overwritten by every passing index in turn, so the
\* result is the greatest passing 0-based index, or the initial -1
ReduceLastIndex(s, Test(_, _)) ==
    IF \E i \in 1..Len(s) : Test(s[i], i - 1)
    THEN (CHOOSE i \in 1..Len(s) :
              /\ Test(s[i], i - 1)
              /\ \A j \in (i + 1)..Len(s) : ~Test(s[j], j - 1)) - 1
    ELSE -1

\* String.prototype.toLowerCase, per character
LowerChar(c) == IF c = "A" THEN "a" ELSE IF c = "B" THEN "b" ELSE c
ToLowerCase(t) == [i \in 1..Len(t) |-> LowerChar(t[i])]

\* String.prototype.includes: needle occurs in hay as a contiguous run
StrIncludes(hay, needle) ==
    \E k \in 0..(Len(hay) - Len(needle)) :
        \A i \in 1..Len(needle) : hay[k + i] = needle[i]

(***************************************************************************)
(* State.                                                                  *)
(***************************************************************************)
VARIABLES
    cfg,            \* the props fixed for the lifetime of the control
    isDisabled,     \* props.isDisabled (the host may change it)
    store,          \* props.options and props.displayedOptions
    selected,       \* the model value `selected`
    search,         \* search = ref("")
    menuOpen,       \* menuOpen = ref(false)
    focusedOption,  \* focusedOption = ref(-1)
    emitted         \* the notifications emitted while the last event was processed

vars == <<cfg, isDisabled, store, selected, search, menuOpen, focusedOption,
          emitted>>

\* The model value with its shape: an array (multi mode) or a scalar.
Arr(s) == [isArray |-> TRUE, val |-> s]
Scalar(v) == [isArray |-> FALSE, val |-> v]

\* JavaScript truthiness of an option value (`!!selected.value`)
Truthy(v) == v # Undefined /\ v # 0

(***************************************************************************)
(* Filter/Group engine: the computed views.                                *)
(***************************************************************************)
\* default props.getOptionLabel / props.getMultiValueLabel
getOptionLabel(option) == option.label
getMultiValueLabel(option) == option.label

\* filterBy without the lowering of case
filterBy_CaseSensitive(option, label, srch) == StrIncludes(label, srch)

\* default props.filterBy
filterBy(option, label, srch) == StrIncludes(ToLowerCase(label), ToLowerCase(srch))

\* filterMultiSelectedValues that drops nothing
filterMultiSelectedValues_KeepsAll(opts, sel) == opts

\* the filter of availableOptions that drops the selected values (multi mode)
filterMultiSelectedValues(opts, sel) ==
    Filter(opts, LAMBDA option : ~Includes(sel.val, option.value))

\* availableOptions with the exclusion of the selected values left out of
\* the search branch
AvailableOptions_SearchKeepsSelected(st, sel, srch) ==
    LET options == IF st.hasDisplayed THEN st.displayed ELSE st.options
    IN  IF cfg.isSearchable /\ srch # <<>>
        THEN Filter(options, LAMBDA option :
                 filterBy(option,
                          IF cfg.isMulti THEN getMultiValueLabel(option)
                                         ELSE getOptionLabel(option),
                          srch))
        ELSE IF cfg.isMulti THEN filterMultiSelectedValues(options, sel) ELSE options

AvailableOptions(st, sel, srch) ==
    LET options == IF st.hasDisplayed THEN st.displayed ELSE st.options
    IN  IF cfg.isSearchable /\ srch # <<>>
        THEN LET matchingOptions ==
                     Filter(options, LAMBDA option :
                         filterBy(option,
                                  IF cfg.isMulti THEN getMultiValueLabel(option)
                                                 ELSE getOptionLabel(option),
                                  srch))
             IN  IF cfg.isMulti THEN filterMultiSelectedValues(matchingOptions, sel)
                                ELSE matchingOptions
        ELSE IF cfg.isMulti THEN filterMultiSelectedValues(options, sel) ELSE options

IsGroupingEnabled(avail) ==
    cfg.isGrouped /\ \E i \in 1..Len(avail) : avail[i].groupName # ""

\* the key function of Object.groupBy: o.groupName || "default"
GroupKey(o) == IF o.groupName # "" THEN o.groupName ELSE "default"

\* The value of a property key that is an array index ("1", "2"), -1 for any
\* other key: own property keys are enumerated with the array indices first,
\* in ascending order, and the other strings after them in insertion order.
KeyIndex(k) == IF k = "1" THEN 1 ELSE IF k = "2" THEN 2 ELSE -1

RECURSIVE InsertionOrder(_, _)
\* the group keys in the order Object.groupBy creates them
InsertionOrder(avail, seen) ==
    IF avail = <<>> THEN seen
    ELSE InsertionOrder(Tail(avail),
                        IF Includes(seen, GroupKey(Head(avail))) THEN seen
                        ELSE Append(seen, GroupKey(Head(avail))))

\* Object.keys(grouped)
ObjectKeys(avail) ==
    LET created == InsertionOrder(avail, <<>>)
    IN  SortSeq(Filter(created, LAMBDA k : KeyIndex(k) >= 0),
                LAMBDA a, b : KeyIndex(a) < KeyIndex(b))
        \o Filter(created, LAMBDA k : KeyIndex(k) < 0)

AvailableOptionsGrouped(avail) ==
    IF ~IsGroupingEnabled(avail)
    THEN << [groupName |-> "default", options |-> avail] >>
    ELSE LET keys == ObjectKeys(avail)
         IN  [i \in 1..Len(keys) |->
                 [groupName |-> keys[i],
                  options |-> Filter(avail, LAMBDA o : GroupKey(o) = keys[i])]]

RECURSIVE ConcatGroups(_)
ConcatGroups(groups) ==
    IF groups = <<>> THEN <<>>
    ELSE Head(groups).options \o ConcatGroups(Tail(groups))

AvailableOptionsGroupedFlat(st, sel, srch) ==
    ConcatGroups(AvailableOptionsGrouped(AvailableOptions(st, sel, srch)))

\* props.options.find((option) => option.value === value); `undefined` when
\* no option has the value
FindOption(opts, value) ==
    IF \E i \in 1..Len(opts) : opts[i].value = value
    THEN opts[CHOOSE i \in 1..Len(opts) :
                  /\ opts[i].value = value
                  /\ \A j \in 1..(i - 1) : opts[j].value # value]
    ELSE UndefinedOption

SelectedOptions(st, sel) ==
    IF cfg.isMulti /\ sel.isArray
    THEN [i \in 1..Len(sel.val) |-> FindOption(st.options, sel.val[i])]
    ELSE LET found == FindOption(st.options, sel.val)
         IN  IF found # UndefinedOption THEN <<found>> ELSE <<>>

\* the views of the current state
availableOptions == AvailableOptions(store, selected, search)
availableOptionsGrouped == AvailableOptionsGrouped(availableOptions)
availableOptionsGroupedFlat == AvailableOptionsGroupedFlat(store, selected, search)
selectedOptions == SelectedOptions(store, selected)

\* array[i] for a 0-based index: `undefined` outside the array
At(arr, i) == IF i >= 0 /\ i < Len(arr) THEN arr[i + 1] ELSE UndefinedOption

(***************************************************************************)
(* Handlers.  A handler takes and returns the control's mutable state `s`  *)
(* as the event being processed sees it:                                   *)
(*   selected       what reading selected.value returns                    *)
(*   pending        the value assigned to selected.value that the host has *)
(*                  not handed back yet (see WriteSelected)                *)
(*   search, menuOpen, focusedOption   the refs                            *)
(*   emitted        the notifications emitted so far                       *)
(*   prevented      e.preventDefault() was called                          *)
(*   stopped        e.stopImmediatePropagation() was called                *)
(*   bound          the host listens to update:modelValue (v-model) while  *)
(*                  the event is processed                                 *)
(***************************************************************************)
Current(bound) ==
    [selected |-> selected, pending |-> [set |-> FALSE, val |-> selected],
     bound |-> bound, search |-> search, menuOpen |-> menuOpen, focusedOption |-> focusedOption,
     emitted |-> <<>>, prevented |-> FALSE, stopped |-> FALSE]

\* emit(name, option)
Emit(s, name, option) ==
    [s EXCEPT !.emitted = Append(@, [name |-> name, option |-> option, text |-> <<>>])]

\* emit("search", text)
EmitSearch(s, text) ==
    [s EXCEPT !.emitted = Append(@, [name |-> "search", option |-> NullOption, text |-> text])]

\* `selected.value = v` on the ref of defineModel.  When the host binds
\* v-model (s.bound) the assignment only emits update:modelValue: the ref
\* keeps returning the old value until the host has re-rendered, which
\* happens before the next event.  Without an update listener the ref is
\* local and changes at once.
WriteSelected(s, v) ==
    IF s.bound THEN [s EXCEPT !.pending = [set |-> TRUE, val |-> v]]
    ELSE [s EXCEPT !.selected = v]

\* openMenu focusing the first option whether it is disabled or not
openMenu_FirstOption(s) ==
    [s EXCEPT !.menuOpen = TRUE,
              !.focusedOption =
                  IF cfg.shouldAutofocusOption
                  THEN (IF Len(store.options) > 0 THEN 0 ELSE -1)
                  ELSE @]

openMenu(s) ==
    [s EXCEPT !.menuOpen = TRUE,
              !.focusedOption =
                  IF cfg.shouldAutofocusOption
                  THEN FindIndex(store.options, LAMBDA option, i : ~option.disabled)
                  ELSE @]

\* closeMenu without the reset of the search text
closeMenu_KeepsSearch(s) == [s EXCEPT !.menuOpen = FALSE]

closeMenu(s) == [s EXCEPT !.menuOpen = FALSE, !.search = <<>>]

toggleMenu(s) == IF s.menuOpen THEN closeMenu(s) ELSE openMenu(s)

\* setOption with unshift in place of push
setOption_Prepends(s, option) ==
    IF option.disabled THEN s
    ELSE LET s1 == IF cfg.isMulti
                   THEN [s EXCEPT !.selected.val = <<option.value>> \o @]
                   ELSE WriteSelected(s, Scalar(option.value))
             s2 == Emit(s1, "optionSelected", option)
             s3 == [s2 EXCEPT !.search = <<>>]
         IN  IF cfg.closeOnSelect THEN [s3 EXCEPT !.menuOpen = FALSE] ELSE s3

\* setOption without the early return on a disabled option
setOption_IgnoresDisabled(s, option) ==
    LET s1 == IF cfg.isMulti
              THEN [s EXCEPT !.selected.val = Append(@, option.value)]
              ELSE WriteSelected(s, Scalar(option.value))
        s2 == Emit(s1, "optionSelected", option)
        s3 == [s2 EXCEPT !.search = <<>>]
    IN  IF cfg.closeOnSelect THEN [s3 EXCEPT !.menuOpen = FALSE] ELSE s3

\* setOption without the reset of the search text
setOption_KeepsSearch(s, option) ==
    IF option.disabled THEN s
    ELSE LET s1 == IF cfg.isMulti
                   THEN [s EXCEPT !.selected.val = Append(@, option.value)]
                   ELSE WriteSelected(s, Scalar(option.value))
             s2 == Emit(s1, "optionSelected", option)
         IN  IF cfg.closeOnSelect THEN [s2 EXCEPT !.menuOpen = FALSE] ELSE s2

setOption(s, option) ==
    IF option.disabled THEN s
    ELSE LET s1 == IF cfg.isMulti
                   THEN [s EXCEPT !.selected.val = Append(@, option.value)]
                   ELSE WriteSelected(s, Scalar(option.value))
             s2 == Emit(s1, "optionSelected", option)
             s3 == [s2 EXCEPT !.search = <<>>]
         IN  IF cfg.closeOnSelect THEN [s3 EXCEPT !.menuOpen = FALSE] ELSE s3

\* removeOption that splices out the first occurrence of the value only
removeOption_FirstOccurrence(s, option) ==
    IF cfg.isMulti /\ ~isDisabled
    THEN LET vals == s.selected.val
             k == FindIndex(vals, LAMBDA value, i : value = option.value)
         IN  Emit(WriteSelected(s, Arr(IF k = -1 THEN vals
                                       ELSE SubSeq(vals, 1, k)
                                            \o SubSeq(vals, k + 2, Len(vals)))),
                  "optionDeselected", option)
    ELSE s

removeOption(s, option) ==
    IF cfg.isMulti /\ ~isDisabled
    THEN Emit(WriteSelected(s, Arr(Filter(s.selected.val,
                                          LAMBDA value : value # option.value))),
              "optionDeselected", option)
    ELSE s

\* clear without closing the menu
clear_KeepsMenuOpen(s) ==
    LET s1 == IF cfg.isMulti
              THEN Emit(WriteSelected(s, Arr(<<>>)), "optionDeselected", NullOption)
              ELSE LET w == WriteSelected(s, Scalar(Undefined))
                   IN  Emit(w, "optionDeselected",
                            At(SelectedOptions(store, w.selected), 0))
    IN  [s1 EXCEPT !.search = <<>>]

clear(s) ==
    LET s1 == IF cfg.isMulti
              THEN Emit(WriteSelected(s, Arr(<<>>)), "optionDeselected", NullOption)
              ELSE LET w == WriteSelected(s, Scalar(Undefined))
                   IN  Emit(w, "optionDeselected",
                            At(SelectedOptions(store, w.selected), 0))
    IN  [s1 EXCEPT !.menuOpen = FALSE, !.search = <<>>]

\* ArrowDownFocus with `i >= currentIndex` in place of `i > currentIndex`
ArrowDownFocus_Inclusive(flat, currentIndex) ==
    LET nextOptionIndex ==
            FindIndex(flat, LAMBDA option, i : ~option.disabled /\ i >= currentIndex)
        firstOptionIndex ==
            FindIndex(flat, LAMBDA option, i : ~option.disabled)
    IN  IF nextOptionIndex = -1 THEN firstOptionIndex ELSE nextOptionIndex

\* the index ArrowDown moves the focus to (nextOptionIndex, firstOptionIndex)
ArrowDownFocus(flat, currentIndex) ==
    LET nextOptionIndex ==
            FindIndex(flat, LAMBDA option, i : ~option.disabled /\ i > currentIndex)
        firstOptionIndex ==
            FindIndex(flat, LAMBDA option, i : ~option.disabled)
    IN  IF nextOptionIndex = -1 THEN firstOptionIndex ELSE nextOptionIndex

\* the index ArrowUp moves the focus to (prevOptionIndex, lastOptionIndex)
ArrowUpFocus(flat, currentIndex) ==
    LET prevOptionIndex ==
            ReduceLastIndex(flat, LAMBDA option, i :
                                ~option.disabled /\ i < currentIndex)
        lastOptionIndex ==
            ReduceLastIndex(flat, LAMBDA option, i : ~option.disabled)
    IN  IF prevOptionIndex = -1 THEN lastOptionIndex ELSE prevOptionIndex

\* availableOptionsGroupedFlat.value as a handler reads it
FlatOf(s) == AvailableOptionsGroupedFlat(store, s.selected, s.search)

\* the branches of handleNavigation, in the order of the source; each takes
\* the state the branches before it left
NavArrowDown(s, e, currentIndex) ==
    IF e.key = "ArrowDown"
    THEN [s EXCEPT !.prevented = TRUE,
                   !.focusedOption = ArrowDownFocus(FlatOf(s), currentIndex)]
    ELSE s

NavArrowUp(s, e, currentIndex) ==
    IF e.key = "ArrowUp"
    THEN [s EXCEPT !.prevented = TRUE,
                   !.focusedOption = ArrowUpFocus(FlatOf(s), currentIndex)]
    ELSE s

\* the Enter branch reading the first option in place of the focused one
NavEnter_FirstOption(s, e, currentIndex) ==
    IF e.key = "Enter"
    THEN LET selectedOption == At(FlatOf(s), 0)
         IN  IF selectedOption # UndefinedOption
             THEN setOption([s EXCEPT !.prevented = TRUE], selectedOption)
             ELSE [s EXCEPT !.prevented = TRUE]
    ELSE s

NavEnter(s, e, currentIndex) ==
    IF e.key = "Enter"
    THEN LET selectedOption == At(FlatOf(s), currentIndex)
         IN  IF selectedOption # UndefinedOption
             THEN setOption([s EXCEPT !.prevented = TRUE], selectedOption)
             ELSE [s EXCEPT !.prevented = TRUE]
    ELSE s

\* the Space branch without the test of the search text
NavSpace_IgnoresSearch(s, e, currentIndex) ==
    IF e.code = "Space"
    THEN LET selectedOption == At(FlatOf(s), currentIndex)
         IN  IF selectedOption # UndefinedOption
             THEN setOption([s EXCEPT !.prevented = TRUE], selectedOption)
             ELSE [s EXCEPT !.prevented = TRUE]
    ELSE s

\* When pressing space with menu open but no search, select the focused option.
NavSpace(s, e, currentIndex) ==
    IF e.code = "Space" /\ Len(s.search) = 0
    THEN LET selectedOption == At(FlatOf(s), currentIndex)
         IN  IF selectedOption # UndefinedOption
             THEN setOption([s EXCEPT !.prevented = TRUE], selectedOption)
             ELSE [s EXCEPT !.prevented = TRUE]
    ELSE s

NavEscape(s, e) ==
    IF e.key = "Escape"
    THEN [s EXCEPT !.prevented = TRUE, !.menuOpen = FALSE, !.search = <<>>]
    ELSE s

\* the Backspace branch without the multi-mode case
NavBackspace_AlwaysUndefined(s, e) ==
    LET hasSelectedValue ==
            IF cfg.isMulti THEN Len(s.selected.val) > 0 ELSE Truthy(s.selected.val)
    IN  IF e.key = "Backspace" /\ Len(s.search) = 0 /\ hasSelectedValue
        THEN WriteSelected([s EXCEPT !.prevented = TRUE], Scalar(Undefined))
        ELSE s

\* When pressing backspace with no search, remove the last selected option.
NavBackspace(s, e) ==
    LET hasSelectedValue ==
            IF cfg.isMulti THEN Len(s.selected.val) > 0 ELSE Truthy(s.selected.val)
    IN  IF e.key = "Backspace" /\ Len(s.search) = 0 /\ hasSelectedValue
        THEN IF cfg.isMulti
             THEN WriteSelected([s EXCEPT !.prevented = TRUE],
                                Arr(SubSeq(s.selected.val, 1, Len(s.selected.val) - 1)))
             ELSE WriteSelected([s EXCEPT !.prevented = TRUE], Scalar(Undefined))
        ELSE s

handleNavigation(s, e) ==
    IF ~s.menuOpen THEN s
    ELSE NavBackspace(
             NavEscape(
                 NavSpace(
                     NavEnter(
                         NavArrowUp(
                             NavArrowDown(s, e, s.focusedOption),
                             e, s.focusedOption),
                         e, s.focusedOption),
                     e, s.focusedOption),
                 e),
             e)

handleInputSpace(s, e) ==
    IF ~s.menuOpen /\ Len(s.search) = 0
    THEN openMenu([s EXCEPT !.prevented = TRUE, !.stopped = TRUE])
    ELSE s

handleInputKeydown(s, e) ==
    IF e.key = "Tab" THEN closeMenu(s)
    ELSE IF e.key = "Space" THEN handleInputSpace(s, e)
    ELSE s

\* handleClickOutside without the test of the click target
handleClickOutside_IgnoresTarget(s, outside) ==
    [s EXCEPT !.menuOpen = FALSE, !.search = <<>>]

\* `outside`: the click target is not inside the control's container
handleClickOutside(s, outside) ==
    IF outside THEN [s EXCEPT !.menuOpen = FALSE, !.search = <<>>] ELSE s

\* the watcher on search without the automatic opening of the menu
WatchSearch_EmitsOnly(s) ==
    IF s.search # search THEN EmitSearch(s, s.search) ELSE s

\* The watcher on search, run when the event's handlers have returned: it
\* fires only if the value differs from the one it saw last.
WatchSearch(s) ==
    IF s.search # search
    THEN LET s1 == EmitSearch(s, s.search)
         IN  IF Len(s1.search) > 0 /\ ~s1.menuOpen THEN openMenu(s1) ELSE s1
    ELSE s

(***************************************************************************)
(* Events.                                                                 *)
(***************************************************************************)
Key(k, c) == [key |-> k, code |-> c]

\* the keydown events of a keyboard: KeyboardEvent.key and KeyboardEvent.code
KeyEvents ==
    { Key("ArrowDown", "ArrowDown"), Key("ArrowUp", "ArrowUp"),
      Key("Enter", "Enter"), Key(" ", "Space"), Key("Escape", "Escape"),
      Key("Backspace", "Backspace"), Key("Tab", "Tab"),
      Key("B", "KeyB") }

\* Whether the host listens to update:modelValue shows only in a handler
\* that reads selected.value after assigning it, which clear() alone does
\* (through selectedOptions); the other handlers are run with Current(TRUE).
\* The state once the event has been processed: the watcher on search has
\* run and the host has handed the assigned model value back.
After(s0) ==
    LET s == WatchSearch(s0)
    IN  [selected |-> IF s.pending.set THEN s.pending.val ELSE s.selected,
         search |-> s.search,
         menuOpen |-> s.menuOpen,
         focusedOption |-> s.focusedOption,
         emitted |-> s.emitted]

\* the event whose handlers left s0 has been processed
Commit(s0) ==
    \E t \in {After(s0)} :
        /\ selected' = t.selected
        /\ search' = t.search
        /\ menuOpen' = t.menuOpen
        /\ focusedOption' = t.focusedOption
        /\ emitted' = t.emitted
        /\ UNCHANGED <<cfg, isDisabled, store>>

\* What the browser does with a keydown in the search input that no handler
\* prevented: a character key appends to the text, Backspace removes the
\* last character (v-model="search").
DefaultAction(s, e) ==
    IF s.prevented THEN s
    ELSE IF e.key \in SearchAlphabet THEN [s EXCEPT !.search = Append(@, e.key)]
    ELSE IF e.key = "Backspace" /\ Len(s.search) > 0
         THEN [s EXCEPT !.search = SubSeq(@, 1, Len(@) - 1)]
    ELSE s

\* A keydown.  With the focus in the search input (inInput) the input's
\* @keydown handler runs first, the event then bubbles to the document's
\* listener, and the default action follows; with the focus anywhere else
\* only the document's listener runs.  A disabled input cannot have the
\* focus.
KeyDownHandlers(e, inInput) ==
    LET s0 == Current(TRUE)
        s1 == IF inInput THEN handleInputKeydown(s0, e) ELSE s0
        s2 == IF s1.stopped THEN s1 ELSE handleNavigation(s1, e)
    IN  IF inInput THEN DefaultAction(s2, e) ELSE s2

KeyDown(e, inInput) ==
    /\ inInput => ~isDisabled
    /\ \E s3 \in {KeyDownHandlers(e, inInput)} :
           /\ Len(s3.search) <= MaxSearchLen
           /\ Commit(s3)

\* @mousedown="openMenu()" on the search input (:disabled="isDisabled")
InputMouseDownHandlers == openMenu(Current(TRUE))

InputMouseDown ==
    /\ ~isDisabled
    /\ Commit(InputMouseDownHandlers)

\* @click on the single value, rendered when !isMulti && selectedOptions[0]
SingleValueHandlers == IF ~isDisabled THEN openMenu(Current(TRUE)) ELSE Current(TRUE)

SingleValueClick ==
    /\ ~cfg.isMulti
    /\ Len(selectedOptions) > 0
    /\ Commit(SingleValueHandlers)

\* @click="toggleMenu" on the dropdown button (:disabled="isDisabled")
ToggleHandlers == toggleMenu(Current(TRUE))

ToggleClick ==
    /\ ~isDisabled
    /\ Commit(ToggleHandlers)

\* @click="clear" on the clear button, rendered when selectedOptions is not
\* empty (:disabled="isDisabled").  isClearable and isLoading only decide
\* whether the buttons are rendered; the host may set them at any time.
ClearHandlers(bound) == clear(Current(bound))

ClearClick(bound) ==
    /\ ~isDisabled
    /\ Len(selectedOptions) > 0
    /\ Commit(ClearHandlers(bound))

\* @click="removeOption(selectedOption)" on the i-th tag (multi mode)
TagHandlers(i) == removeOption(Current(TRUE), selectedOptions[i])

TagClick(i) ==
    /\ cfg.isMulti
    /\ i \in 1..Len(selectedOptions)
    /\ selectedOptions[i] # UndefinedOption
    /\ Commit(TagHandlers(i))

\* @select="setOption(option)" on the option at flat index i of the open menu
OptionHandlers(i) == setOption(Current(TRUE), At(availableOptionsGroupedFlat, i))

OptionClick(i) ==
    /\ menuOpen
    /\ i \in 0..(Len(availableOptionsGroupedFlat) - 1)
    /\ Commit(OptionHandlers(i))

\* a click anywhere in the document that no control of the component handles
DocumentClickHandlers(outside) == handleClickOutside(Current(TRUE), outside)

DocumentClick(outside) == Commit(DocumentClickHandlers(outside))

\* the host flips props.isDisabled
SetDisabled ==
    /\ isDisabled' = ~isDisabled
    /\ emitted' = <<>>
    /\ UNCHANGED <<cfg, store, selected, search, menuOpen, focusedOption>>

\* The host replaces the option list.  In multi mode the tags of the
\* selected values are rendered from the options that carry them, so the new
\* list still has an option for every selected value.
ReplaceOptions(st) ==
    /\ st # store
    /\ cfg.isMulti =>
           \A i \in 1..Len(selected.val) :
               FindOption(st.options, selected.val[i]) # UndefinedOption
    /\ store' = st
    /\ emitted' = <<>>
    /\ UNCHANGED <<cfg, isDisabled, selected, search, menuOpen, focusedOption>>

(***************************************************************************)
(* Specification.                                                          *)
(***************************************************************************)
Configs ==
    [isMulti : BOOLEAN, closeOnSelect : BOOLEAN, shouldAutofocusOption : BOOLEAN,
     isGrouped : BOOLEAN, isSearchable : BOOLEAN]

OptionValues(st) == {st.options[i].value : i \in 1..Len(st.options)}

SeqsUpTo(S, n) == UNION {[1..k -> S] : k \in 0..n}

\* the model values the host may start with: of the mode's shape
InitialSelections(c, st) ==
    IF c.isMulti
    THEN {Arr(q) : q \in SeqsUpTo(OptionValues(st), MaxInitSel)}
    ELSE {Scalar(v) : v \in OptionValues(st) \cup {Undefined}}

Init ==
    /\ cfg \in Configs
    /\ isDisabled \in BOOLEAN
    /\ store \in Stores
    /\ selected \in InitialSelections(cfg, store)
    /\ search = <<>>
    /\ menuOpen = FALSE
    /\ focusedOption = NoFocus
    /\ emitted = <<>>

Next ==
    \/ \E e \in KeyEvents, inInput \in BOOLEAN : KeyDown(e, inInput)
    \/ InputMouseDown
    \/ SingleValueClick
    \/ ToggleClick
    \/ \E bound \in BOOLEAN : ClearClick(bound)
    \/ \E i \in 1..Len(selectedOptions) : TagClick(i)
    \/ \E i \in 0..(Len(availableOptionsGroupedFlat) - 1) : OptionClick(i)
    \/ \E outside \in BOOLEAN : DocumentClick(outside)
    \/ SetDisabled
    \/ \E st \in Stores : ReplaceOptions(st)

Spec == Init /\ [][Next]_vars

(***************************************************************************)
(* Helpers of the properties.                                              *)
(***************************************************************************)
\* the notifications of one name among those of the last event
EventsNamed(ev, name) == {i \in 1..Len(ev) : ev[i].name = name}

EnterKey == Key("Enter", "Enter")
SpaceKey == Key(" ", "Space")
BackspaceKey == Key("Backspace", "Backspace")

\* where the focus may be when a key is pressed: a disabled input cannot have
\* it (the guard of KeyDown)
InputPlaces == {inInput \in BOOLEAN : inInput => ~isDisabled}

\* the state a keydown leaves once it has been processed
AfterKey(e, inInput) == After(KeyDownHandlers(e, inInput))

\* the option at the focused index of the flattened visible list
FocusedTarget == At(availableOptionsGroupedFlat, focusedOption)

\* the 0-based indices of the enabled options of a flat list
EnabledIndices(flat) == {i \in 0..(Len(flat) - 1) : ~flat[i + 1].disabled}

Min(S) == CHOOSE x \in S : \A y \in S : x <= y
Max(S) == CHOOSE x \in S : \A y \in S : x >= y

(***************************************************************************)
(* C1: a successful select of a non-disabled option replaces the value in  *)
(* single mode and appends option.value at the end of the sequence in      *)
(* multi mode, the earlier elements staying as they were; it emits         *)
(* optionSelected(option) exactly once.                                    *)
(***************************************************************************)
\* what a successful select of option o leaves behind
\* what a successful select of option o leaves behind in the state t
C1_Selected(o, t) ==
    /\ IF cfg.isMulti
       THEN /\ Len(t.selected.val) = Len(selected.val) + 1
            /\ t.selected.val[Len(t.selected.val)] = o.value
            /\ \A i \in 1..Len(selected.val) : t.selected.val[i] = selected.val[i]
       ELSE t.selected = Scalar(o.value)
    /\ Cardinality(EventsNamed(t.emitted, "optionSelected")) = 1
    /\ \A i \in EventsNamed(t.emitted, "optionSelected") : t.emitted[i].option = o

\* In every state with the menu open: a click on a non-disabled option, and
\* Enter, or Space with empty search text, while a non-disabled option is at
\* the focused index, leave the selection and the notification of C1.
C1_SelectAppendsOrReplaces ==
    menuOpen =>
        \A flat \in {availableOptionsGroupedFlat} :
            /\ \A i \in 0..(Len(flat) - 1) :
                   ~At(flat, i).disabled =>
                       C1_Selected(At(flat, i), After(OptionHandlers(i)))
            /\ \A o \in {At(flat, focusedOption)} :
                   (o # UndefinedOption /\ ~o.disabled) =>
                       \A inInput \in InputPlaces :
                           /\ C1_Selected(o, AfterKey(EnterKey, inInput))
                           /\ search = <<>> =>
                                  C1_Selected(o, AfterKey(SpaceKey, inInput))

\* multi mode: a select has just appended a third value behind two others
C1_Witness ==
    /\ cfg.isMulti
    /\ Cardinality(EventsNamed(emitted, "optionSelected")) = 1
    /\ selected.val = <<2, 1, 0>>

(***************************************************************************)
(* C2: in multi mode no option of the visible set has a value that is in   *)
(* the selection sequence.                                                 *)
(***************************************************************************)
C2_VisibleExcludesSelected ==
    cfg.isMulti =>
        \A i \in 1..Len(availableOptions) :
            \A j \in 1..Len(selected.val) :
                availableOptions[i].value # selected.val[j]

\* multi mode, a search is typed while something is selected and something
\* is still visible
C2_Witness ==
    /\ cfg.isMulti
    /\ cfg.isSearchable
    /\ menuOpen
    /\ search # <<>>
    /\ Len(selected.val) > 0
    /\ Len(availableOptions) > 0

(***************************************************************************)
(* C3: whenever the menu is closed the search text is empty.               *)
(***************************************************************************)
C3_ClosedImpliesEmptySearch == ~menuOpen => search = <<>>

\* the menu has just been closed, by something other than a select or a
\* clear, while a search text was typed: the only notification of the event
\* is the watcher's report of the text becoming empty
C3_Witness ==
    /\ ~menuOpen
    /\ Len(emitted) = 1
    /\ emitted[1].name = "search"
    /\ emitted[1].text = <<>>

(***************************************************************************)
(* C4: an attempt to select a disabled option (a click on it, Enter, or    *)
(* Space with empty search text, while it is at the focused index) changes *)
(* neither selection, menu state, search text nor focused index and emits  *)
(* no optionSelected.                                                      *)
(***************************************************************************)
C4_Ignored(t) ==
    /\ t.selected = selected
    /\ t.menuOpen = menuOpen
    /\ t.search = search
    /\ t.focusedOption = focusedOption
    /\ EventsNamed(t.emitted, "optionSelected") = {}

C5_Moved(f, enabled, beyond, nearest(_)) ==
    /\ f = IF beyond # {} THEN nearest(beyond)
           ELSE IF enabled # {} THEN nearest(enabled)
           ELSE NoFocus
    /\ f \in enabled \cup {NoFocus}
    /\ f = NoFocus <=> enabled = {}

\* C5: with the menu open ArrowDown / ArrowUp leave the focused index on the
\* next / previous enabled index, wrapping around, and on -1 when no option
\* is enabled.
C5_ArrowNavigation ==
    menuOpen =>
        \A enabled \in {EnabledIndices(availableOptionsGroupedFlat)} :
            \A inInput \in InputPlaces :
                /\ C5_Moved(AfterKey(Key("ArrowDown", "ArrowDown"), inInput).focusedOption,
                            enabled, {i \in enabled : i > focusedOption}, Min)
                /\ C5_Moved(AfterKey(Key("ArrowUp", "ArrowUp"), inInput).focusedOption,
                            enabled, {i \in enabled : i < focusedOption}, Max)

\* With autofocus every opening sets the focused index to the first enabled
\* option of props.options, which every option list of the model has: the
\* index is -1 while the menu is open only after an arrow key found a
\* non-empty visible list without an enabled option.
C5_Witness ==
    /\ cfg.shouldAutofocusOption
    /\ menuOpen
    /\ Len(availableOptionsGroupedFlat) > 0
    /\ EnabledIndices(availableOptionsGroupedFlat) = {}
    /\ focusedOption = NoFocus

(***************************************************************************)
(* C6: after every event that recomputes the visible option set (a change  *)
(* of the search text, of the selection in multi mode, or of the option    *)
(* list) the focused index is -1 or an index of the flattened visible      *)
(* list.                                                                   *)
(***************************************************************************)
C6_RecomputeStep ==
    (\/ store' # store
     \/ search' # search
     \/ cfg.isMulti /\ selected' # selected) =>
        \/ focusedOption' = NoFocus
        \/ /\ focusedOption' >= 0
           /\ focusedOption' < Len(availableOptionsGroupedFlat')

\* C6: every step that recomputes the visible set leaves the focused index
\* at -1 or inside the flattened visible list.
C6_FocusResolvedAfterRecompute == [][C6_RecomputeStep]_vars

(***************************************************************************)
(* C7: deselect.                                                           *)
(***************************************************************************)
RECURSIVE RemoveFirst(_, _)
\* q without the first occurrence of v
RemoveFirst(q, v) ==
    IF q = <<>> THEN <<>>
    ELSE IF Head(q) = v THEN Tail(q)
    ELSE <<Head(q)>> \o RemoveFirst(Tail(q), v)

RECURSIVE RemoveAll(_, _)
\* q without any occurrence of v
RemoveAll(q, v) ==
    IF q = <<>> THEN <<>>
    ELSE IF Head(q) = v THEN RemoveAll(Tail(q), v)
    ELSE <<Head(q)>> \o RemoveAll(Tail(q), v)

\* what deselect leaves alone in single mode or on a disabled control: in
\* every state, removeOption applied to any option returns the state it got
C7_DeselectGuarded ==
    (~cfg.isMulti \/ isDisabled) =>
        \A i \in 1..Len(store.options), bound \in BOOLEAN :
            removeOption(Current(bound), store.options[i]) = Current(bound)

\* C7 as claimed: in multi mode on a non-disabled control deselect removes
\* exactly the first occurrence of option.value, later occurrences staying,
\* and emits optionDeselected(option); otherwise it changes and emits nothing.
C7_FirstOccurrenceStep ==
    \A i \in 1..Len(selectedOptions) :
        TagClick(i) =>
            IF cfg.isMulti /\ ~isDisabled
            THEN /\ selected'.val = RemoveFirst(selected.val, selectedOptions[i].value)
                 /\ Len(emitted') = 1
                 /\ emitted'[1].name = "optionDeselected"
                 /\ emitted'[1].option = selectedOptions[i]
            ELSE /\ UNCHANGED <<selected, search, menuOpen, focusedOption>>
                 /\ emitted' = <<>>

\* C7 as claimed: every deselect step removes the first occurrence only.
C7_DeselectRemovesFirstOccurrence == [][C7_FirstOccurrenceStep]_vars

\* C7 as amended: in multi mode on a non-disabled control deselect removes
\* every occurrence of option.value, all other elements staying in place and
\* in order, and emits optionDeselected(option); in single mode, or when the
\* control is disabled, it changes nothing and emits nothing.
C7_DeselectRemovesAllOccurrences ==
    /\ C7_DeselectGuarded
    /\ cfg.isMulti =>
           \A i \in 1..Len(selectedOptions) :
               \A o \in {selectedOptions[i]}, t \in {After(TagHandlers(i))} :
                   o # UndefinedOption =>
                       IF ~isDisabled
                       THEN /\ t.selected.val = RemoveAll(selected.val, o.value)
                            /\ Len(t.emitted) = 1
                            /\ t.emitted[1].name = "optionDeselected"
                            /\ t.emitted[1].option = o
                            /\ t.search = search
                            /\ t.menuOpen = menuOpen
                            /\ t.focusedOption = focusedOption
                       ELSE /\ t.selected = selected
                            /\ t.search = search
                            /\ t.menuOpen = menuOpen
                            /\ t.focusedOption = focusedOption
                            /\ t.emitted = <<>>

\* multi mode: an option (not null, so no clear) has just been deselected
\* and two other values stay selected
C7_Witness ==
    /\ cfg.isMulti
    /\ ~isDisabled
    /\ Len(emitted) = 1
    /\ emitted[1].name = "optionDeselected"
    /\ emitted[1].option # NullOption
    /\ Len(selected.val) = 2
    /\ \A j \in 1..2 : selected.val[j] # emitted[1].option.value

(***************************************************************************)
(* C8: clear() emits exactly one optionDeselected; its payload is the      *)
(* option that was selected before the clear in single mode and null in    *)
(* multi mode.                                                             *)
(***************************************************************************)
C8_ClearStep ==
    \A bound \in BOOLEAN :
        ClearClick(bound) =>
            /\ Cardinality(EventsNamed(emitted', "optionDeselected")) = 1
            /\ \A i \in EventsNamed(emitted', "optionDeselected") :
                   emitted'[i].option = IF cfg.isMulti THEN NullOption
                                        ELSE At(selectedOptions, 0)

\* C8: every clear step emits one optionDeselected, with the option that was
\* selected (single mode) or null (multi mode).
C8_ClearEmitsDeselected == [][C8_ClearStep]_vars

(***************************************************************************)
(* C9: Backspace with the menu open, empty search text and a non-empty     *)
(* selection (whatever the selected value) drops the last element in multi *)
(* mode and resets the value to undefined in single mode; it emits no      *)
(* optionDeselected and leaves the menu's open state as it was.            *)
(***************************************************************************)
C9_BackspaceStep ==
    \A inInput \in BOOLEAN :
        (/\ KeyDown(BackspaceKey, inInput)
         /\ menuOpen
         /\ search = <<>>
         /\ IF cfg.isMulti THEN Len(selected.val) > 0 ELSE selected.val # Undefined) =>
            /\ IF cfg.isMulti
               THEN selected'.val = SubSeq(selected.val, 1, Len(selected.val) - 1)
               ELSE selected' = Scalar(Undefined)
            /\ EventsNamed(emitted', "optionDeselected") = {}
            /\ menuOpen' = menuOpen

\* C9: every Backspace step with the menu open, empty search text and a
\* non-empty selection removes the last selected value and emits no
\* optionDeselected.
C9_BackspaceRemovesLast == [][C9_BackspaceStep]_vars

(***************************************************************************)
(* C10: while the control is disabled no mutating operation (a select by   *)
(* click or by Enter/Space, deselect, clear, Backspace) changes the        *)
(* selection or emits a notification, also when the control was disabled   *)
(* while its menu was open.                                                *)
(***************************************************************************)
C10_DisabledStep ==
    (/\ isDisabled
     /\ \/ \E i \in 0..(Len(availableOptionsGroupedFlat) - 1) : OptionClick(i)
        \/ \E i \in 1..Len(selectedOptions) : TagClick(i)
        \/ \E bound \in BOOLEAN : ClearClick(bound)
        \/ \E inInput \in BOOLEAN, e \in {EnterKey, SpaceKey, BackspaceKey} :
               KeyDown(e, inInput)) =>
        /\ selected' = selected
        /\ EventsNamed(emitted', "optionSelected") = {}
        /\ EventsNamed(emitted', "optionDeselected") = {}

\* C10: no mutating step on a disabled control changes the selection or
\* emits a notification.
C10_DisabledControlIgnoresMutations == [][C10_DisabledStep]_vars

(***************************************************************************)
(* C11: Space pressed in the search input while the menu is closed and the *)
(* search text is empty opens the menu and inserts no character:           *)
(* afterwards the menu is open, the search text is still empty and no      *)
(* option has been selected.                                               *)
(***************************************************************************)
C11_SpaceOpensWithoutTyping ==
    (~isDisabled /\ ~menuOpen /\ search = <<>>) =>
        \A t \in {AfterKey(SpaceKey, TRUE)} :
            /\ t.menuOpen
            /\ t.search = <<>>
            /\ EventsNamed(t.emitted, "optionSelected") = {}

(***************************************************************************)
(* C12: after every successful select, in both modes, the search text is   *)
(* empty; the menu is closed if closeOnSelect is enabled and keeps its     *)
(* open state if closeOnSelect is disabled.                                *)
(***************************************************************************)
C12_Settled(t) ==
    /\ t.search = <<>>
    /\ t.menuOpen = IF cfg.closeOnSelect THEN FALSE ELSE menuOpen

C13_ClearResets ==
    \A bound \in BOOLEAN :
        \A t \in {After(ClearHandlers(bound))} :
            /\ t.selected = IF cfg.isMulti THEN Arr(<<>>) ELSE Scalar(Undefined)
            /\ ~t.menuOpen
            /\ t.search = <<>>

\* multi mode: the selection has just been cleared (the notification carries
\* null) while the menu was open with a search text typed
C13_Witness ==
    /\ cfg.isMulti
    /\ selected = Arr(<<>>)
    /\ ~menuOpen
    /\ search = <<>>
    /\ Len(emitted) = 2
    /\ emitted[1].name = "optionDeselected"
    /\ emitted[1].option = NullOption
    /\ emitted[2].name = "search"

(***************************************************************************)
(* C14: with the menu open, Enter selects exactly the option at the        *)
(* focused index of the flattened visible list and does nothing when no    *)
(* option is at that index; Space does the same only when the search text  *)
(* is empty, and with non-empty search text Space selects nothing.         *)
(***************************************************************************)
C14_NothingSelected(t) ==
    /\ t.selected = selected
    /\ EventsNamed(t.emitted, "optionSelected") = {}

\* select(o) and nothing else: the select of C1 for an enabled option, no
\* select for a disabled one (C4), and no change at all without an option
C14_SelectsOnly(o, t) ==
    IF o = UndefinedOption
    THEN /\ C14_NothingSelected(t)
         /\ t.search = search
         /\ t.menuOpen = menuOpen
         /\ t.focusedOption = focusedOption
         /\ t.emitted = <<>>
    ELSE IF o.disabled THEN C14_NothingSelected(t)
    ELSE C1_Selected(o, t)

\* C14: with the menu open Enter, and Space when the search text is empty,
\* select the option at the focused index and nothing else; Space with a
\* non-empty search text selects nothing.
C14_EnterSpaceSelectFocused ==
    menuOpen =>
        \A o \in {At(availableOptionsGroupedFlat, focusedOption)} :
            \A inInput \in InputPlaces :
                /\ C14_SelectsOnly(o, AfterKey(EnterKey, inInput))
                /\ IF search = <<>>
                   THEN C14_SelectsOnly(o, AfterKey(SpaceKey, inInput))
                   ELSE C14_NothingSelected(AfterKey(SpaceKey, inInput))

\* single mode, the menu has stayed open: the option at the focused index,
\* which an arrow key has moved off the first option, has just been selected
C14_Witness ==
    /\ ~cfg.isMulti
    /\ menuOpen
    /\ focusedOption > 0
    /\ Len(emitted) = 1
    /\ emitted[1].name = "optionSelected"
    /\ emitted[1].option = At(availableOptionsGroupedFlat, focusedOption)
    /\ selected = Scalar(emitted[1].option.value)

(***************************************************************************)
(* C15: the scenario of three options [A,B,C], none disabled, single mode. *)
(***************************************************************************)
\* the event's handlers have returned and the host has handed the model
\* value back: the state the next event's handlers start from
C15_Settled(s) ==
    [s EXCEPT !.selected = IF s.pending.set THEN s.pending.val ELSE @,
              !.pending = [set |-> FALSE, val |-> s.selected],
              !.prevented = FALSE, !.stopped = FALSE]

\* key e is pressed in the state s: the document's keydown listener runs
C15_Press(s, e) == C15_Settled(handleNavigation([s EXCEPT !.emitted = <<>>], e))

\* the menu is opened, then ArrowDown twice, then Enter
C15_Opened == C15_Settled(openMenu(Current(TRUE)))
C15_Down1 == C15_Press(C15_Opened, Key("ArrowDown", "ArrowDown"))
C15_Down2 == C15_Press(C15_Down1, Key("ArrowDown", "ArrowDown"))
C15_Entered == C15_Press(C15_Down2, EnterKey)

\* C15 as claimed: after the menu is opened ArrowDown twice leaves the
\* focused index at 1 (B); Enter then sets the selection to B's value, closes
\* the menu and emits optionSelected(B).
C15_ScenarioAsClaimed ==
    (~cfg.isMulti /\ store = PlainStore /\ ~menuOpen) =>
        /\ C15_Down2.focusedOption = 1
        /\ C15_Entered.selected = Scalar(PlainStore.options[2].value)
        /\ ~C15_Entered.menuOpen
        /\ C15_Entered.emitted =
               <<[name |-> "optionSelected", option |-> PlainStore.options[2],
                  text |-> <<>>]>>

\* C15 as amended: without grouping, when the menu opens with no option
\* focused (autofocus disabled, focused index -1), ArrowDown twice leaves the
\* focused index at 1 (B); Enter then sets the selection to B's value and
\* emits optionSelected(B), and the menu is closed exactly when closeOnSelect
\* is enabled.
C15_ScenarioFromNoFocus ==
    (/\ ~cfg.isMulti
     /\ ~cfg.isGrouped
     /\ store = PlainStore
     /\ ~menuOpen
     /\ C15_Opened.focusedOption = NoFocus) =>
        /\ C15_Down1.focusedOption = 0
        /\ C15_Down2.focusedOption = 1
        /\ C15_Entered.selected = Scalar(PlainStore.options[2].value)
        /\ C15_Entered.menuOpen = ~cfg.closeOnSelect
        /\ C15_Entered.emitted =
               <<[name |-> "optionSelected", option |-> PlainStore.options[2],
                  text |-> <<>>]>>

\* the scenario has been played: without autofocus the focused index is 1
\* only after arrow keys, B has just been selected and the menu has closed
C15_Witness ==
    /\ ~cfg.isMulti
    /\ ~cfg.shouldAutofocusOption
    /\ cfg.closeOnSelect
    /\ ~cfg.isGrouped
    /\ store = PlainStore
    /\ focusedOption = 1
    /\ ~menuOpen
    /\ selected = Scalar(PlainStore.options[2].value)
    /\ emitted = <<[name |-> "optionSelected", option |-> PlainStore.options[2],
                    text |-> <<>>]>>

(***************************************************************************)
(* C16: the visible option set.                                            *)
(***************************************************************************)
\* the list the visible set is drawn from
C16_Source == IF store.hasDisplayed THEN store.displayed ELSE store.options

\* the default match predicate: the search text occurs in the display label,
\* letters compared without regard to case
C16_Matches(o) ==
    \E k \in 0..(Len(o.label) - Len(search)) :
        \A i \in 1..Len(search) : LowerChar(o.label[k + i]) = LowerChar(search[i])

C16_NotSelected(o) == \A j \in 1..Len(selected.val) : selected.val[j] # o.value

\* C16 as claimed: for every configuration the visible set is exactly the
\* options, in order, that (in multi mode) are not in the selection and (when
\* the search text is non-empty) match it.
C16_VisibleAsClaimed ==
    availableOptions =
        SelectSeq(C16_Source,
                  LAMBDA o : /\ cfg.isMulti => C16_NotSelected(o)
                             /\ search # <<>> => C16_Matches(o))

\* C16 as amended: the search text filters only when isSearchable is
\* enabled; the visible set is exactly the options of the source list
\* (displayedOptions when supplied, else options), in its order, that (in
\* multi mode) are not in the selection and (when isSearchable is enabled
\* and the search text is non-empty) match it.
C16_VisibleWhenSearchable ==
    /\ availableOptions =
           SelectSeq(C16_Source,
                     LAMBDA o : /\ cfg.isMulti => C16_NotSelected(o)
                                /\ (cfg.isSearchable /\ search # <<>>) => C16_Matches(o))
    /\ (~cfg.isSearchable \/ search = <<>>) =>
           availableOptions =
               SelectSeq(C16_Source, LAMBDA o : cfg.isMulti => C16_NotSelected(o))
    /\ (cfg.isSearchable /\ search # <<>>) =>
           \A i \in 1..Len(availableOptions) : C16_Matches(availableOptions[i])

\* multi mode, searchable: of the options that are not selected the search
\* text keeps one and drops another
C16_Witness ==
    /\ cfg.isMulti
    /\ cfg.isSearchable
    /\ search # <<>>
    /\ Len(selected.val) > 0
    /\ Len(availableOptions) > 0
    /\ \E i \in 1..Len(C16_Source) :
           /\ C16_NotSelected(C16_Source[i])
           /\ ~C16_Matches(C16_Source[i])

(***************************************************************************)
(* C17: the grouped view partitions the visible option set: a single group *)
(* "default" with all visible options in order when grouping is disabled   *)
(* or no visible option carries a groupName; otherwise the groups appear   *)
(* in first-occurrence order of their groupName among the visible options, *)
(* options without a groupName fall in "default", the options of a group   *)
(* keep their order, and the flattened view contains every visible option  *)
(* exactly once.                                                           *)
(***************************************************************************)
\* the group an option belongs to
C17_GroupOf(o) == IF o.groupName = "" THEN "default" ELSE o.groupName

\* the position in the visible set of the first option of group g
C17_FirstOccurrence(g) ==
    Min({i \in 1..Len(availableOptions) : C17_GroupOf(availableOptions[i]) = g})

\* C17: the grouped view is the partition of the visible set described
\* above, its groups in first-occurrence order, and the flattened view holds
\* every visible option exactly once.
C17_GroupedPartition ==
    \A visible \in {availableOptions}, groups \in {availableOptionsGrouped},
       flat \in {availableOptionsGroupedFlat} :
        /\ IF ~cfg.isGrouped \/ \A i \in 1..Len(visible) : visible[i].groupName = ""
           THEN groups = <<[groupName |-> "default", options |-> visible]>>
           ELSE /\ {groups[k].groupName : k \in 1..Len(groups)}
                       = {C17_GroupOf(visible[i]) : i \in 1..Len(visible)}
                /\ \A k \in 1..Len(groups), l \in 1..Len(groups) :
                       k < l => C17_FirstOccurrence(groups[k].groupName)
                                    < C17_FirstOccurrence(groups[l].groupName)
                /\ \A k \in 1..Len(groups) :
                       groups[k].options =
                           SelectSeq(visible,
                                     LAMBDA o : C17_GroupOf(o) = groups[k].groupName)
        /\ Len(flat) = Len(visible)
        /\ \A i \in 1..Len(visible) :
               Cardinality({j \in 1..Len(flat) : flat[j] = visible[i]}) = 1

(***************************************************************************)
(* C18: given an initial selection whose shape matches the mode, after any *)
(* sequence of select, deselect, clear and Backspace operations the        *)
(* selection is a sequence in multi mode and a scalar (an option value or  *)
(* the empty value) in single mode.                                        *)
(***************************************************************************)
\* the option values of the model
C18_Values == UNION {OptionValues(st) : st \in Stores}

\* C18: the selection is a sequence of option values in multi mode and an
\* option value or undefined in single mode.
C18_ShapeMatchesMode ==
    IF cfg.isMulti
    THEN selected.isArray /\ selected.val \in Seq(C18_Values)
    ELSE ~selected.isArray /\ selected.val \in C18_Values \cup {Undefined}

\* multi mode: the only selected option has just been deselected, the
\* selection is the empty sequence
C18_Witness ==
    /\ cfg.isMulti
    /\ selected = Arr(<<>>)
    /\ Len(emitted) = 1
    /\ emitted[1].name = "optionDeselected"
    /\ emitted[1].option # NullOption

(***************************************************************************)
(* C19: typing into the search field while the menu is closed.             *)
(***************************************************************************)
\* the default match predicate for a search text
C19_Matches(o, text) ==
    \E k \in 0..(Len(o.label) - Len(text)) :
        \A i \in 1..Len(text) : LowerChar(o.label[k + i]) = LowerChar(text[i])

\* the visible set of the state t holds matching options only
C19_OnlyMatching(t) ==
    \A visible \in {AvailableOptions(store, t.selected, t.search)} :
        \A i \in 1..Len(visible) : C19_Matches(visible[i], t.search)

\* C19 as claimed: whenever a key makes the search text non-empty while the
\* menu is closed, the menu is open once the event has been processed and
\* the visible set then contains only the matching options.
C19_TypingOpensAndFilters ==
    ~menuOpen =>
        \A e \in KeyEvents, inInput \in InputPlaces :
            \A t \in {AfterKey(e, inInput)} :
                t.search # <<>> => t.menuOpen /\ C19_OnlyMatching(t)

\* C19 as amended: the menu is open once the event has been processed; the
\* visible set then contains only the matching options when isSearchable is
\* enabled.
C19_TypingOpensAndFiltersWhenSearchable ==
    ~menuOpen =>
        \A e \in KeyEvents, inInput \in InputPlaces :
            \A t \in {AfterKey(e, inInput)} :
                t.search # <<>> =>
                    /\ t.menuOpen
                    /\ cfg.isSearchable => C19_OnlyMatching(t)

\* the search text has just become non-empty (the watcher has reported it),
\* the menu is open and the text has dropped an option from the visible set
C19_Witness ==
    /\ cfg.isSearchable
    /\ menuOpen
    /\ emitted = <<[name |-> "search", option |-> NullOption, text |-> search]>>
    /\ Len(search) = 1
    /\ Len(availableOptions) > 0
    /\ Len(availableOptions) < Len(C16_Source)
    /\ ~cfg.isMulti

(***************************************************************************)
(* C20: from any state with the menu open, each of Escape, Tab in the      *)
(* search input and a click outside the control's container leads to a     *)
(* state with the menu closed and the search text empty, and none of them  *)
(* changes the selection; a click inside the container does not close the  *)
(* menu through the outside-click handler.                                 *)
(***************************************************************************)
C20_Closed(t) ==
    /\ ~t.menuOpen
    /\ t.search = <<>>
    /\ t.selected = selected

\* C20: with the menu open, Escape, Tab in the search input and a click
\* outside close the menu, empty the search text and keep the selection; a
\* click inside leaves the menu open.
C20_DismissCloses ==
    menuOpen =>
        /\ \A inInput \in InputPlaces :
               C20_Closed(AfterKey(Key("Escape", "Escape"), inInput))
        /\ TRUE \in InputPlaces => C20_Closed(AfterKey(Key("Tab", "Tab"), TRUE))
        /\ C20_Closed(After(DocumentClickHandlers(TRUE)))
        /\ \A t \in {After(DocumentClickHandlers(FALSE))} :
               /\ t.menuOpen
               /\ t.search = search
               /\ t.selected = selected

\* multi mode: the menu has just been dismissed while a search text was
\* typed (nothing but the text becoming empty is reported) and the selected
\* values are still there
C20_Witness ==
    /\ cfg.isMulti
    /\ Len(selected.val) > 0
    /\ ~menuOpen
    /\ search = <<>>
    /\ focusedOption >= 0
    /\ emitted = <<[name |-> "search", option |-> NullOption, text |-> <<>>]>>

(***************************************************************************)
(* C21: every transition that opens the menu (toggle, mouse-down on the    *)
(* input, click on the single value, typing while closed, Space while      *)
(* closed) sets the focused index, when autofocus is enabled, to the index *)
(* of the first non-disabled option of the unfiltered option list (-1 if   *)
(* there is none); when autofocus is disabled, opening leaves the focused  *)
(* index unchanged.                                                        *)
(***************************************************************************)
\* the focused index an opening must leave
C21_Seed ==
    IF ~cfg.shouldAutofocusOption THEN focusedOption
    ELSE IF EnabledIndices(store.options) = {} THEN NoFocus
    ELSE Min(EnabledIndices(store.options))

\* t is the state an event leaves: if the event has opened the menu the
\* focused index is the seed
C21_Seeded(t) == t.menuOpen => t.focusedOption = C21_Seed

C22_Reset(t) ==
    /\ ~t.menuOpen
    /\ t.search = <<>>
    /\ t.focusedOption = NoFocus

\* C22: from every state with the menu open, Escape, Tab in the search
\* input and a click outside leave the menu closed, the search text empty
\* and the focused index -1.
C22_DismissResetsFocus ==
    menuOpen =>
        /\ \A inInput \in InputPlaces :
               C22_Reset(AfterKey(Key("Escape", "Escape"), inInput))
        /\ TRUE \in InputPlaces => C22_Reset(AfterKey(Key("Tab", "Tab"), TRUE))
        /\ C22_Reset(After(DocumentClickHandlers(TRUE)))

(***************************************************************************)
(* C23: in every reachable state with the menu open, if the focused index  *)
(* designates an option of the flattened visible list then that option is  *)
(* not disabled.                                                           *)
(***************************************************************************)
C23_FocusedOptionEnabled ==
    menuOpen =>
        \A o \in {At(availableOptionsGroupedFlat, focusedOption)} :
            o # UndefinedOption => ~o.disabled

(***************************************************************************)
(* C24: in multi mode, if the option values are unique and the initial     *)
(* selection contains no duplicate, then after any sequence of option      *)
(* clicks, Enter/Space selections, deselects, clears and Backspace         *)
(* removals the selection sequence contains no value twice.                *)
(***************************************************************************)
\* no two options of the list carry one value
C24_UniqueValues ==
    \A i \in 1..Len(store.options), j \in 1..Len(store.options) :
        i # j => store.options[i].value # store.options[j].value

C24_NoDuplicate(q) == \A i \in 1..Len(q), j \in 1..Len(q) : i # j => q[i] # q[j]

\* C24, as the step that carries it from the initial selection to every
\* later one: in multi mode with unique option values, from every state
\* whose selection contains no value twice, an option click, any key (Enter,
\* Space and Backspace among them), a deselect and a clear leave a selection
\* that contains no value twice.
C24_SelectionStaysDistinct ==
    (cfg.isMulti /\ C24_UniqueValues /\ C24_NoDuplicate(selected.val)) =>
        /\ menuOpen =>
               \A i \in 0..(Len(availableOptionsGroupedFlat) - 1) :
                   C24_NoDuplicate(After(OptionHandlers(i)).selected.val)
        /\ \A e \in KeyEvents, inInput \in InputPlaces :
               C24_NoDuplicate(AfterKey(e, inInput).selected.val)
        /\ \A i \in 1..Len(selectedOptions) :
               C24_NoDuplicate(After(TagHandlers(i)).selected.val)
        /\ \A bound \in BOOLEAN :
               C24_NoDuplicate(After(ClearHandlers(bound)).selected.val)

\* multi mode, unique option values: selects have brought the selection to
\* all three values, each once, and nothing is left to select
C24_Witness ==
    /\ cfg.isMulti
    /\ C24_UniqueValues
    /\ Len(selected.val) = Len(store.options)
    /\ C24_NoDuplicate(selected.val)
    /\ availableOptions = <<>>
    /\ Cardinality(EventsNamed(emitted, "optionSelected")) = 1

====
